---- MODULE Spec2Model ----
(***************************************************************************)
(* Model of pymatgen/io/abinitio/task.py: the status state machine of a    *)
(* Task, the process handle it polls, the artifacts check_status reads,    *)
(* and the TaskManager operations that submit a task.                      *)
(*                                                                         *)
(* Python values are encoded uniformly: an optional integer is a sequence  *)
(* (None is <<>>, the integer n is <<n>>); a missing attribute is a        *)
(* boolean has_* field next to the attribute.  Timestamps in history lines *)
(* are left out: an entry is the event text plus the error info.           *)
(***************************************************************************)
EXTENDS Integers, Sequences, FiniteSets, TLC

\* ------------------------------------------------------------------ values
None == <<>>

Some(x) == <<x>>

S_READY == 1

S_SUB == 2

S_RUN == 4

S_DONE == 8

S_ERROR == 16

S_OK == 32

POSSIBLE_STATUS == {S_READY, S_SUB, S_RUN, S_DONE, S_ERROR, S_OK}

\* deque(maxlen=10)
HistoryMaxLen == 10

\* ------------------------------------------------------------------ bounds
\* The workflow: task 2 depends on task 1.
Tasks == {1, 2}

links(t) == IF t = 2 THEN <<1>> ELSE <<>>

\* Exit codes a job's process can end with; KillCode is what a killed
\* process reports (terminated by signal 9).
ExitCodes == {0, 2}

KillCode == -9

QueueIds == {101}

\* The caller submits and checks a task until its history holds MaxHistory
\* lines.
MaxHistory == 2

\* max_ncpus of a policy that enables the adaptive search
PolicyMaxNcpus == 4

\* ------------------------------------------------------------------ files
\* The main output file as EventParser sees it.
NoOutput == [exists |-> FALSE, parsable |-> FALSE, run_completed |-> FALSE,
             errors |-> 0, bugs |-> 0]

Garbled == [exists |-> TRUE, parsable |-> FALSE, run_completed |-> FALSE,
            errors |-> 0, bugs |-> 0]

Report(completed, nerrors, nbugs) ==
    [exists |-> TRUE, parsable |-> TRUE, run_completed |-> completed,
     errors |-> nerrors, bugs |-> nbugs]

OutputContents ==
    {NoOutput, Garbled, Report(FALSE, 0, 0), Report(FALSE, 1, 0),
     Report(FALSE, 0, 1), Report(TRUE, 0, 0), Report(TRUE, 1, 1)}

\* A text file: absent, empty, or holding a message.
NoFile == [exists |-> FALSE, content |-> ""]

EmptyFile == [exists |-> TRUE, content |-> ""]

TextFile(s) == [exists |-> TRUE, content |-> s]

StderrContents == {NoFile, EmptyFile, TextFile("stderr message")}

QerrContents == {NoFile, EmptyFile, TextFile("queue message")}

\* A job only adds to its artifacts: the output goes from absent to a
\* partial document to a completed one, a text file from absent to empty
\* to non-empty.
OutputRank(o) ==
    IF ~o.exists THEN 0
    ELSE IF ~o.parsable THEN 1
    ELSE IF o.run_completed THEN 4
    ELSE IF o.errors + o.bugs > 0 THEN 3
    ELSE 2

TextRank(f) == IF ~f.exists THEN 0 ELSE IF f.content = "" THEN 1 ELSE 2

\* ------------------------------------------------------------------ state
VARIABLES
    tasks,      \* tasks[t]: the attributes of Task t
    procs,      \* procs[t]: the Popen object held in tasks[t]._process
    files,      \* files[t]: the artifacts in the working directory of t
    manager,    \* the TaskManager shared by the tasks
    paral_hints, \* the ParalHints objects the caller holds
    task_results, \* the TaskResults object the caller holds
    last,       \* the last call made by the caller and how it ended
    starts      \* starts[t]: where the start() call of task t stands

vars == <<tasks, procs, files, manager, paral_hints, task_results, last, starts>>

\* ---------------------------------------------------------------- history
\* A full history that refuses the new entry
DequeAppend_keeps_oldest(h, e) ==
    IF Len(h) < HistoryMaxLen THEN Append(h, e) ELSE h

DequeAppend(h, e) ==
    IF Len(h) < HistoryMaxLen THEN Append(h, e) ELSE Append(Tail(h), e)

SubmittedLine == [event |-> "Submitted on", info |-> ""]

CompletedLine == [event |-> "Completed on", info |-> ""]

ErrorLine(err_info) == [event |-> "Error info", info |-> err_info]

\* ------------------------------------------------------------- Task.__init__
NewTask ==
    [status |-> S_READY,
     has_returncode |-> FALSE, returncode |-> None,
     has_process |-> FALSE,
     queue_id |-> None,
     extra_abivars |-> [n \in {} |-> 0],
     history |-> <<>>,
     has_events |-> FALSE, events |-> None,
     has_results |-> FALSE, results |-> None]

\* ------------------------------------------------------------- set_status
\* set_status writing a line for every change of status
set_status_logs_every_change(tk, status, err_info) ==
    LET changed == status # tk.status
        line == IF status = S_SUB THEN SubmittedLine
                ELSE IF status = S_OK THEN CompletedLine
                ELSE IF status = S_ERROR THEN ErrorLine(err_info)
                ELSE [event |-> "Status changed on", info |-> ""]
    IN [tk EXCEPT !.status = status,
                  !.history = IF changed THEN DequeAppend(tk.history, line)
                              ELSE tk.history]

set_status(tk, status, err_info) ==
    LET changed == status # tk.status
        line == IF status = S_SUB THEN <<SubmittedLine>>
                ELSE IF status = S_OK THEN <<CompletedLine>>
                ELSE IF status = S_ERROR THEN <<ErrorLine(err_info)>>
                ELSE <<>>
    IN [tk EXCEPT !.status = status,
                  !.history = IF changed /\ line # <<>>
                              THEN DequeAppend(tk.history, line[1])
                              ELSE tk.history]

\* Task.returncode: 0 when the attribute was never set
returncode(tk) == IF tk.has_returncode THEN tk.returncode ELSE Some(0)

set_returncode(tk, rc) ==
    [tk EXCEPT !.has_returncode = TRUE, !.returncode = rc]

RcText(rc) ==
    IF rc = None THEN "return code None"
    ELSE IF rc = Some(2) THEN "return code 2"
    ELSE IF rc = Some(KillCode) THEN "return code -9"
    ELSE "return code 0"

\* ------------------------------------------------------------- the process
\* state: "none" (never created), "running", "exited"; code: what the
\* operating system holds once the process has exited; returncode: the
\* Popen attribute, set when poll or wait reaps the process.
NoProcess == [state |-> "none", code |-> None, returncode |-> None]

RunningProcess == [state |-> "running", code |-> None, returncode |-> None]

Popen_poll(p) ==
    IF p.state = "exited" THEN [p EXCEPT !.returncode = p.code] ELSE p

\* wait blocks until the process has exited, with code c if it is running
Popen_wait(p, c) ==
    IF p.state = "exited" THEN [p EXCEPT !.returncode = p.code]
    ELSE [state |-> "exited", code |-> Some(c), returncode |-> Some(c)]

Popen_kill(p) ==
    IF p.state = "running"
    THEN [state |-> "exited", code |-> Some(KillCode), returncode |-> None]
    ELSE p

\* FakeProcess: the handle of a task that has no _process attribute.  poll
\* answers None; wait, communicate and kill raise.
FakeProcess_poll == None

\* Variant: wait on the stand-in returns instead of raising.
FakeProcess_wait_returns == ""

FakeProcess_wait == "RuntimeError"

FakeProcess_communicate == "RuntimeError"

FakeProcess_kill == "RuntimeError"

\* ------------------------------------------------- outcome of a Task method
\* task, proc: the task and its process after the call; ret: the returned
\* value (an optional integer); exc: the exception that left the call, ""
\* when it returned.
Outcome(tk, p, ret, exc) == [task |-> tk, proc |-> p, ret |-> ret, exc |-> exc]

\* ------------------------------------------------------------------- poll
\* Variant: an exit code moves the task to Done only from Running, and to
\* Running first otherwise.
poll_through_running(tk, p) ==
    LET p2 == IF tk.has_process THEN Popen_poll(p) ELSE p
        rc == IF tk.has_process THEN p2.returncode ELSE FakeProcess_poll
        tk2 == set_returncode(tk, rc)
    IN Outcome(IF rc = None THEN tk2
               ELSE IF tk.status = S_RUN THEN set_status(tk2, S_DONE, "")
               ELSE set_status(tk2, S_RUN, ""),
               p2, rc, "")

poll(tk, p) ==
    LET p2 == IF tk.has_process THEN Popen_poll(p) ELSE p
        rc == IF tk.has_process THEN p2.returncode ELSE FakeProcess_poll
        tk2 == set_returncode(tk, rc)
    IN Outcome(IF rc # None THEN set_status(tk2, S_DONE, "") ELSE tk2,
               p2, rc, "")

\* ------------------------------------------------------------------- wait
wait(tk, p, c) ==
    IF ~tk.has_process THEN Outcome(tk, p, None, FakeProcess_wait)
    ELSE LET p2 == Popen_wait(p, c)
             tk2 == set_returncode(tk, p2.returncode)
         IN Outcome(set_status(tk2, S_DONE, ""), p2, p2.returncode, "")

\* ------------------------------------------------------------ communicate
\* The returned (stdoutdata, stderrdata) pair is not part of the state: ret
\* is None.
communicate(tk, p, c) ==
    IF ~tk.has_process THEN Outcome(tk, p, None, FakeProcess_communicate)
    ELSE LET p2 == Popen_wait(p, c)
             tk2 == set_returncode(tk, p2.returncode)
         IN Outcome(set_status(tk2, S_DONE, ""), p2, None, "")

\* ------------------------------------------------------------------- kill
kill(tk, p) ==
    IF ~tk.has_process THEN Outcome(tk, p, None, FakeProcess_kill)
    ELSE LET p2 == Popen_kill(p)
         IN Outcome(set_returncode(tk, p2.returncode), p2, None, "")

\* --------------------------------------------------------------- EventParser
\* parse raises parser.Error unless the file holds a well-formed document.
EventParser_parse(o) ==
    IF o.exists /\ o.parsable THEN [ok |-> TRUE, report |-> o]
    ELSE [ok |-> FALSE, report |-> o]

\* ------------------------------------------------------------ check_status
\* Variant: errors and bugs are looked at before the run-completed flag.
check_status_report_errors_first(tk, p, f, report) ==
    IF report.errors > 0 \/ report.bugs > 0
    THEN Outcome(tk, p, None, "NameError")
    ELSE IF report.run_completed
    THEN LET tk2 == set_status(tk, S_OK, "")
         IN Outcome(tk2, p, Some(tk2.status), "")
    ELSE IF f.stderr_file.exists /\ f.stderr_file.content # ""
    THEN LET tk2 == set_status(tk, S_ERROR, f.stderr_file.content)
         IN Outcome(tk2, p, Some(tk2.status), "")
    ELSE IF f.qerr_file.exists /\ f.qerr_file.content # ""
    THEN LET tk2 == set_status(tk, S_ERROR, f.qerr_file.content)
         IN Outcome(tk2, p, Some(tk2.status), "")
    ELSE LET tk2 == set_status(tk, S_RUN, "")
         IN Outcome(tk2, p, Some(tk2.status), "")

\* Variant: when no rule matches the task is taken to have completed.
check_status_report_default_ok(tk, p, f, report) ==
    IF report.run_completed
    THEN LET tk2 == set_status(tk, S_OK, "")
         IN Outcome(tk2, p, Some(tk2.status), "")
    ELSE IF report.errors > 0 \/ report.bugs > 0
    THEN Outcome(tk, p, None, "NameError")
    ELSE IF f.stderr_file.exists /\ f.stderr_file.content # ""
    THEN LET tk2 == set_status(tk, S_ERROR, f.stderr_file.content)
         IN Outcome(tk2, p, Some(tk2.status), "")
    ELSE IF f.qerr_file.exists /\ f.qerr_file.content # ""
    THEN LET tk2 == set_status(tk, S_ERROR, f.qerr_file.content)
         IN Outcome(tk2, p, Some(tk2.status), "")
    ELSE LET tk2 == set_status(tk, S_OK, "")
         IN Outcome(tk2, p, Some(tk2.status), "")

\* Variant: a stderr or queue stderr file that exists is a failure.
check_status_report_file_exists(tk, p, f, report) ==
    IF report.run_completed
    THEN LET tk2 == set_status(tk, S_OK, "")
         IN Outcome(tk2, p, Some(tk2.status), "")
    ELSE IF report.errors > 0 \/ report.bugs > 0
    THEN Outcome(tk, p, None, "NameError")
    ELSE IF f.stderr_file.exists
    THEN LET tk2 == set_status(tk, S_ERROR, f.stderr_file.content)
         IN Outcome(tk2, p, Some(tk2.status), "")
    ELSE IF f.qerr_file.exists
    THEN LET tk2 == set_status(tk, S_ERROR, f.qerr_file.content)
         IN Outcome(tk2, p, Some(tk2.status), "")
    ELSE LET tk2 == set_status(tk, S_RUN, "")
         IN Outcome(tk2, p, Some(tk2.status), "")

\* Lines 288-323: the output parsed.
check_status_report(tk, p, f, report) ==
    IF report.run_completed
    THEN LET tk2 == set_status(tk, S_OK, "")
         IN Outcome(tk2, p, Some(tk2.status), "")
    ELSE IF report.errors > 0 \/ report.bugs > 0
    \* str(report_bus): the name is not defined
    THEN Outcome(tk, p, None, "NameError")
    ELSE IF f.stderr_file.exists /\ f.stderr_file.content # ""
    THEN LET tk2 == set_status(tk, S_ERROR, f.stderr_file.content)
         IN Outcome(tk2, p, Some(tk2.status), "")
    ELSE IF f.qerr_file.exists /\ f.qerr_file.content # ""
    THEN LET tk2 == set_status(tk, S_ERROR, f.qerr_file.content)
         IN Outcome(tk2, p, Some(tk2.status), "")
    ELSE LET tk2 == set_status(tk, S_RUN, "")
         IN Outcome(tk2, p, Some(tk2.status), "")

\* Variant: an output that does not parse is taken as still being written.
check_status_parse_still_running(tk, p, f) ==
    LET parsed == EventParser_parse(f.output_file)
    IN IF ~parsed.ok
       THEN LET tk2 == set_status(tk, S_RUN, "")
            IN Outcome(tk2, p, Some(tk2.status), "")
       ELSE check_status_report(tk, p, f, parsed.report)

\* Lines 278-286: parse the output file.
check_status_parse(tk, p, f) ==
    LET parsed == EventParser_parse(f.output_file)
    IN IF ~parsed.ok
       THEN LET tk2 == set_status(tk, S_ERROR, "parser.Error")
            IN Outcome(tk2, p, Some(tk2.status), "")
       ELSE check_status_report(tk, p, f, parsed.report)

\* Variant: a job without output and stderr files is marked Running.
check_status_files_assume_running(tk, p, f) ==
    IF ~f.output_file.exists /\ ~f.stderr_file.exists
    THEN LET tk2 == set_status(tk, S_RUN, "")
         IN Outcome(tk2, p, Some(tk2.status), "")
    ELSE IF ~f.output_file.exists /\ f.stderr_file.content # ""
    THEN Outcome(tk, p, None, "NameError")
    ELSE check_status_parse(tk, p, f)

\* Lines 265-276: the output file is not there yet.
check_status_files(tk, p, f) ==
    IF ~f.output_file.exists /\ ~f.stderr_file.exists
    THEN Outcome(tk, p, Some(tk.status), "")
    ELSE IF ~f.output_file.exists /\ f.stderr_file.content # ""
    \* err_info=err_msf: the name is not defined
    THEN Outcome(tk, p, None, "NameError")
    ELSE check_status_parse(tk, p, f)

\* Variant: only a positive return code counts as a failure.
check_status_positive_rc(tk, p, f) ==
    IF tk.status < S_SUB THEN Outcome(tk, p, None, "")
    ELSE IF returncode(tk) # Some(0) /\ returncode(tk) # Some(KillCode)
    THEN LET tk2 == set_status(tk, S_ERROR, RcText(returncode(tk)))
         IN Outcome(tk2, p, Some(tk2.status), "")
    ELSE check_status_files(tk, p, f)

check_status(tk, p, f) ==
    IF tk.status < S_SUB THEN Outcome(tk, p, None, "")
    ELSE IF returncode(tk) # Some(0)
    THEN LET tk2 == set_status(tk, S_ERROR, RcText(returncode(tk)))
         IN Outcome(tk2, p, Some(tk2.status), "")
    ELSE check_status_files(tk, p, f)

\* ------------------------------------------------------------ TaskResults
\* TaskResults(...): the keys given plus an empty _exceptions list.
TaskResults(rc, status) ==
    [task_returncode |-> rc, task_status |-> status, exceptions |-> <<>>]

\* The caller holds no TaskResults object.
NoResults == None

\* ------------------------------------------------------- events and results
\* parse_events: None without an output file, the report when it parses,
\* and the parser's exception otherwise.  value is the optional report.
parse_events(f) ==
    IF ~f.output_file.exists THEN [exc |-> "", value |-> None]
    ELSE IF ~EventParser_parse(f.output_file).ok
    THEN [exc |-> "parser.Error", value |-> None]
    ELSE [exc |-> "", value |-> Some(f.output_file)]

\* Task.events: refused below Done, then cached in _events.  The Outcome
\* carries no integer; the value read is tk.events.
events(tk, p, f) ==
    IF tk.status < S_DONE THEN Outcome(tk, p, None, "TaskError")
    ELSE IF tk.has_events THEN Outcome(tk, p, None, "")
    ELSE LET parsed == parse_events(f)
         IN IF parsed.exc # "" THEN Outcome(tk, p, None, parsed.exc)
            ELSE Outcome([tk EXCEPT !.has_events = TRUE, !.events = parsed.value],
                         p, None, "")

\* get_results without the test on the status
get_results_any_status(tk, p, f) ==
    IF returncode(tk) = None THEN Outcome(tk, p, None, "TaskError")
    ELSE LET e == events([tk EXCEPT !.status = S_DONE], p, f)
             tk2 == [e.task EXCEPT !.status = tk.status]
         IN IF e.exc # "" THEN Outcome(tk2, p, None, e.exc)
            ELSE IF tk2.events = None
            THEN Outcome(tk2, p, None, "AttributeError")
            ELSE Outcome([tk2 EXCEPT !.results =
                              Some(TaskResults(returncode(tk), tk.status))],
                         p, None, "")

\* get_results: refused without a return code and below Done; the events
\* are read on the way (self.events.to_dict), and None has no to_dict.
\* The record built is left in results for the caller of get_results.
get_results(tk, p, f) ==
    IF returncode(tk) = None THEN Outcome(tk, p, None, "TaskError")
    ELSE IF tk.status < S_DONE THEN Outcome(tk, p, None, "TaskError")
    ELSE LET e == events(tk, p, f)
         IN IF e.exc # "" THEN e
            ELSE IF e.task.events = None
            THEN Outcome(e.task, p, None, "AttributeError")
            ELSE Outcome([e.task EXCEPT !.results =
                              Some(TaskResults(returncode(tk), tk.status))],
                         p, None, "")

\* Task.results: the cached _results, or get_results() cached.
results(tk, p, f) ==
    IF tk.has_results THEN Outcome(tk, p, None, "")
    ELSE LET g == get_results(tk, p, f)
         IN IF g.exc # "" THEN Outcome([g.task EXCEPT !.results = tk.results],
                                       p, None, g.exc)
            ELSE Outcome([g.task EXCEPT !.has_results = TRUE], p, None, "")

\* push_exceptions appending without looking for the string in the list
push_exceptions_again(r, newstr) ==
    [r EXCEPT !.exceptions = Append(@, newstr)]

\* push_exceptions(exc) with newstr = str(exc)
push_exceptions(r, newstr) ==
    IF \E i \in 1..Len(r.exceptions) : r.exceptions[i] = newstr
    THEN r
    ELSE [r EXCEPT !.exceptions = Append(@, newstr)]

\* assert_valid: the assert fails on task_returncode != 0 before self.S_OK
\* is looked up, and str of the AssertionError caught is "".  With
\* task_returncode == 0 the lookup of self.S_OK raises AttributeError:
\* TaskResults and its bases have no S_OK.
assert_valid(r) ==
    IF r.task_returncode # Some(0)
    THEN [exc |-> "", results |-> push_exceptions(r, "")]
    ELSE [exc |-> "AttributeError", results |-> r]

\* ----------------------------------------------------- links and can_run
\* Variant: a task without links reports the status of a fresh task.
links_status_ready(ts, t) ==
    IF links(t) = <<>> THEN <<S_READY>>
    ELSE [i \in 1..Len(links(t)) |-> ts[links(t)[i]].status]

links_status(ts, t) ==
    IF links(t) = <<>> THEN <<S_OK>>
    ELSE [i \in 1..Len(links(t)) |-> ts[links(t)[i]].status]

can_run(ts, t) ==
    /\ ts[t].status = S_READY
    /\ \A i \in 1..Len(links_status(ts, t)) : links_status(ts, t)[i] >= S_DONE

\* ------------------------------------------------------- strategy variables
\* add_extra_abivars and remove_extra_abivars: a dict update and a removal
\* of keys.
add_extra_abivars(abivars, d) ==
    [n \in DOMAIN abivars \cup DOMAIN d |->
        IF n \in DOMAIN d THEN d[n] ELSE abivars[n]]

remove_extra_abivars(abivars, keys) ==
    [n \in DOMAIN abivars \ keys |-> abivars[n]]

\* ------------------------------------------------------------- ParalHints
\* efficiency is counted in a fixed fraction of 1 (hundredths in ConfA and
\* ConfB), and speedup in that fraction of a CPU.
ParalConf(tot, mpi, eff, vs) ==
    [tot_ncpus |-> tot, mpi_ncpus |-> mpi, efficiency |-> eff, vars |-> vs]

speedup(conf) == conf.efficiency * conf.tot_ncpus

\* list.sort(key=speedup) is a stable insertion into ascending order
RECURSIVE sort_by_speedup(_)
sort_by_speedup(confs) ==
    IF confs = <<>> THEN <<>>
    ELSE LET n == Len(confs)
             init == sort_by_speedup(SubSeq(confs, 1, n - 1))
             x == confs[n]
             k == Cardinality({i \in 1..Len(init) : speedup(init[i]) <= speedup(x)})
         IN SubSeq(init, 1, k) \o <<x>> \o SubSeq(init, k + 1, Len(init))

\* list.sort(key=efficiency), the same way
RECURSIVE sort_by_efficiency(_)
sort_by_efficiency(confs) ==
    IF confs = <<>> THEN <<>>
    ELSE LET n == Len(confs)
             init == sort_by_efficiency(SubSeq(confs, 1, n - 1))
             x == confs[n]
             k == Cardinality({i \in 1..Len(init) : init[i].efficiency <= x.efficiency})
         IN SubSeq(init, 1, k) \o <<x>> \o SubSeq(init, k + 1, Len(init))

\* ParalHints objects live in a heap of _confs lists; an object is the
\* index of its list, so two objects sharing a list would show.
\* copy answering the object itself
ParalHints_copy_same_object(heap, i) ==
    [heap |-> heap, ref |-> i]

\* copy: a new object with a list of its own, built from self._confs[:]
ParalHints_copy(heap, i) ==
    [heap |-> Append(heap, heap[i]), ref |-> Len(heap) + 1]

\* sort_by_speedup with the key of sort_by_efficiency
ParalHints_sort_by_speedup_key_efficiency(heap, i) ==
    [heap EXCEPT ![i] = sort_by_efficiency(heap[i])]

ParalHints_sort_by_speedup(heap, i) ==
    [heap EXCEPT ![i] = sort_by_speedup(heap[i])]

ParalHints_sort_by_efficiency(heap, i) ==
    [heap EXCEPT ![i] = sort_by_efficiency(heap[i])]

\* select_optimal_conf with the branch on policy.mode that the source keeps
\* in a comment: the conservative mode selects by efficiency
ParalHints_select_optimal_conf_by_mode(heap, i, policy) ==
    LET c == ParalHints_copy(heap, i)
        h2 == IF policy.mode = "conservative"
              THEN ParalHints_sort_by_efficiency(c.heap, c.ref)
              ELSE ParalHints_sort_by_speedup(c.heap, c.ref)
        sorted == h2[c.ref]
        after == SubSeq(h2, 1, Len(heap))
    IN IF sorted = <<>>
       THEN [heap |-> after, exc |-> "IndexError", optimal |-> None]
       ELSE [heap |-> after, exc |-> "", optimal |-> Some(sorted[Len(sorted)])]

\* select_optimal_conf(policy) on object i: sort a copy by speedup and
\* return a copy of its last element; hints[-1] raises IndexError when the
\* list is empty.  heap is the caller's heap after the call (the local
\* copies are dropped); the policy is not looked at.
ParalHints_select_optimal_conf(heap, i, policy) ==
    LET c == ParalHints_copy(heap, i)
        h2 == ParalHints_sort_by_speedup(c.heap, c.ref)
        sorted == h2[c.ref]
        after == SubSeq(h2, 1, Len(heap))
    IN IF sorted = <<>>
       THEN [heap |-> after, exc |-> "IndexError", optimal |-> None]
       ELSE [heap |-> after, exc |-> "", optimal |-> Some(sorted[Len(sorted)])]

\* The same call on a ParalHints object the caller does not hold.
select_optimal_conf(confs, policy) ==
    ParalHints_select_optimal_conf(<<confs>>, 1, policy)

\* ------------------------------------------------------- ParalHintsParser
\* What the log of a probe run holds.
\*   "absent":        there is no log file
\*   "no_tags":       a tag is missing (also when both are on one line)
\*   "empty_section": the end tag follows the start tag, nothing between
\*   "bad_yaml":      the section is not a YAML document
\*   "no_header":     a YAML mapping without the header key
\*   "hints":         header and configurations
ProbeLog(kind, confs) == [kind |-> kind, confs |-> confs]

ConfA == ParalConf(2, 2, 50, [n \in {"npband"} |-> 2])

ConfB == ParalConf(4, 4, 90, [n \in {"npband"} |-> 4])

\* One CPU at full efficiency: the speedup of ConfA, the best efficiency.
ConfC == ParalConf(1, 1, 100, [n \in {"npband"} |-> 1])

\* The table of the ParalConf docstring read as the claim reads it:
\* speedups 1.5, 27.0, 0.25 and 0.25 on 84, 108, 96 and 108 CPUs.  The
\* efficiency is speedup / tot_ncpus, counted here in 1/24192.
ExampleConfs ==
    <<ParalConf(84, 84, 432, [n \in {"npband"} |-> 12]),
      ParalConf(108, 108, 6048, [n \in {"npband"} |-> 108]),
      ParalConf(96, 96, 63, [n \in {"npband"} |-> 24]),
      ParalConf(108, 108, 56, [n \in {"npband"} |-> 12])>>

MaxHints == 3

\* The lists of configurations a RUN_HINTS section can hold.
HintLists ==
    UNION {[1..n -> {ConfA, ConfB, ConfC}] : n \in 0..MaxHints} \cup {ExampleConfs}

ProbeLogs ==
    {ProbeLog("no_tags", <<>>), ProbeLog("empty_section", <<>>),
     ProbeLog("bad_yaml", <<>>), ProbeLog("no_header", <<>>),
     ProbeLog("hints", <<>>), ProbeLog("hints", <<ConfB, ConfA>>)}

\* start == end never holds (a line with both tags leaves end unset), so
\* an empty section reaches yaml.load, which answers None, and d["header"]
\* raises TypeError.
ParalHintsParser_parse(log) ==
    IF log.kind = "absent" THEN [exc |-> "IOError", confs |-> <<>>]
    ELSE IF log.kind = "no_tags" THEN [exc |-> "ParalHintsError", confs |-> <<>>]
    ELSE IF log.kind = "bad_yaml" THEN [exc |-> "ParalHintsError", confs |-> <<>>]
    ELSE IF log.kind = "empty_section" THEN [exc |-> "TypeError", confs |-> <<>>]
    ELSE IF log.kind = "no_header" THEN [exc |-> "KeyError", confs |-> <<>>]
    ELSE [exc |-> "", confs |-> log.confs]

\* ------------------------------------------------------------ TaskManager
\* TaskPolicy._DEFAULTS
TaskPolicy_DEFAULTS ==
    [autoparal |-> 0, mode |-> "default", max_ncpus |-> None, use_fw |-> FALSE,
     constraints |-> <<>>]

\* TaskPolicy.__init__ without the test for unknown keys
TaskPolicy_init_any_key(kwargs) ==
    LET filled == [k \in DOMAIN TaskPolicy_DEFAULTS |->
                      IF k \in DOMAIN kwargs THEN kwargs[k]
                      ELSE TaskPolicy_DEFAULTS[k]]
    IN IF filled.autoparal # 0 /\ filled.max_ncpus = None
       THEN [exc |-> "ValueError", policy |-> filled]
       ELSE [exc |-> "", policy |-> filled]

\* TaskPolicy(**kwargs): unknown keys are refused, the defaults fill the
\* keys not given, and autoparal needs max_ncpus.
TaskPolicy_init(kwargs) ==
    LET filled == [k \in DOMAIN TaskPolicy_DEFAULTS |->
                      IF k \in DOMAIN kwargs THEN kwargs[k]
                      ELSE TaskPolicy_DEFAULTS[k]]
    IN IF \E k \in DOMAIN kwargs : k \notin DOMAIN TaskPolicy_DEFAULTS
       THEN [exc |-> "ValueError", policy |-> kwargs]
       ELSE IF filled.autoparal # 0 /\ filled.max_ncpus = None
       THEN [exc |-> "ValueError", policy |-> filled]
       ELSE [exc |-> "", policy |-> filled]

\* TaskManager(qtype, policy=policy): the policy is built from the
\* keywords given, or is the default policy when none are (None).
TaskManager_init(policy) ==
    LET p == IF policy = None THEN TaskPolicy_init(TaskPolicy_DEFAULTS)
             ELSE TaskPolicy_init(policy[1])
    IN [exc |-> p.exc, manager |-> [policy |-> p.policy, mpi_ncpus |-> 1]]

Policy(autoparal, max_ncpus) ==
    [TaskPolicy_DEFAULTS EXCEPT !.autoparal = autoparal, !.max_ncpus = max_ncpus]

\* The policies a TaskManager can be built with.
Policies ==
    {Policy(0, None), Policy(0, Some(PolicyMaxNcpus)), Policy(1, Some(PolicyMaxNcpus))}

\* What a manager call leaves behind: the task, its process, its files,
\* the manager, the exception ("" when it returned) and, for autoparal,
\* the returned pair (None when it is (None, None)).
MOutcome(tk, p, f, mgr, exc, hints) ==
    [task |-> tk, proc |-> p, files |-> f, manager |-> mgr, exc |-> exc,
     hints |-> hints]

\* write_jobfile: the script of this manager's adapter, opened with "w"
write_jobfile(f, mgr) == [f EXCEPT !.job_file = Some(mgr.mpi_ncpus)]

\* AbinitTask.build: the files file is written when it is not there, the
\* input file and, through the task's manager, the job file always.
build(tk, f, mgr) ==
    write_jobfile([f EXCEPT !.files_file = TRUE,
                            !.input_file = Some(tk.extra_abivars)], mgr)

\* to_shell_manager(mpi_ncpus): the same manager on a shell adapter
to_shell_manager(mgr, mpi_ncpus) == [mgr EXCEPT !.mpi_ncpus = mpi_ncpus]

\* The files launch leaves: task.build(), then the launching manager's
\* own write_jobfile.
launch_files(tk, f, task_manager, launcher) ==
    write_jobfile(build(tk, f, task_manager), launcher)

\* launch with the status of line 1421, S_RUN, in place of S_SUB
launch_marks_running(tk, qid) ==
    LET tk2 == set_status(tk, S_RUN, "")
    IN [tk2 EXCEPT !.queue_id = Some(qid)]

\* launch: build, write the job file, mark the task submitted, submit.
\* The process submit returns goes to the caller; the task keeps only the
\* queue id.
launch(tk, qid) ==
    LET tk2 == set_status(tk, S_SUB, "")
    IN [tk2 EXCEPT !.queue_id = Some(qid)]

\* launch when qadapter.submit_to_queue raises: the status was set on the
\* line before, set_queue_id is not reached and nothing is undone.
launch_submit_raises(tk) == set_status(tk, S_SUB, "")

\* The test of line 1311 asking for both conditions
autoparal_nothing_to_do_both(policy) ==
    policy.autoparal = 0 /\ policy.max_ncpus = None

\* Line 1311: nothing to do
autoparal_nothing_to_do(policy) ==
    policy.autoparal = 0 \/ policy.max_ncpus = None

\* autoparal(task); log and err are what the probe run leaves in the log
\* and stderr files.
autoparal(tk, p, f, mgr, qid, log, err) ==
    LET policy == mgr.policy
        autoparal_vars == [n \in {"autoparal", "max_ncpus"} |->
                              IF n = "autoparal" THEN policy.autoparal
                              ELSE policy.max_ncpus[1]]
    IN IF autoparal_nothing_to_do(policy)
       THEN MOutcome(tk, p, f, mgr, "", None)
       ELSE IF policy.autoparal # 1
       THEN MOutcome(tk, p, f, mgr, "AssertionError", None)
       ELSE
       LET tk1 == [tk EXCEPT !.extra_abivars =
                       add_extra_abivars(tk.extra_abivars, autoparal_vars)]
           \* seq_manager.launch(task); process.wait()
           tk2 == launch(tk1, qid)
           \* Reset the status, remove the variables and the output file
           tk3 == set_status(tk2, S_READY, "")
           tk4 == [tk3 EXCEPT !.extra_abivars =
                       remove_extra_abivars(tk3.extra_abivars, DOMAIN autoparal_vars)]
           \* task.build(), then the files of seq_manager.launch(task)
           fb == launch_files(tk1, build(tk1, f, mgr), mgr, to_shell_manager(mgr, 1))
           f2 == [fb EXCEPT !.output_file = NoOutput, !.log_file = log,
                            !.stderr_file = err]
           parsed == ParalHintsParser_parse(log)
           selected == select_optimal_conf(parsed.confs, policy)
       IN IF parsed.exc = "ParalHintsError"
          THEN MOutcome(tk4, p, f2, mgr, "", None)
          ELSE IF parsed.exc # ""
          THEN MOutcome(tk4, p, f2, mgr, parsed.exc, None)
          ELSE IF selected.exc # ""
          THEN MOutcome(tk4, p, f2, mgr, selected.exc, None)
          ELSE LET optimal == selected.optimal[1]
                   tk5 == [tk4 EXCEPT !.extra_abivars =
                               add_extra_abivars(tk4.extra_abivars, optimal.vars)]
               IN MOutcome(tk5, p, f2, [mgr EXCEPT !.mpi_ncpus = optimal.mpi_ncpus],
                           "", <<parsed.confs, optimal>>)

\* AbinitTask.start: build, _setup, autoparal, then launch and keep the
\* process.  connect_ok is whether _setup found the files of the links.
start(tk, p, f, mgr, qid, log, err, connect_ok) ==
    LET f0 == build(tk, f, mgr)
    IN IF ~connect_ok THEN MOutcome(tk, p, f0, mgr, "TaskError", None)
       ELSE LET a == autoparal(tk, p, f0, mgr, qid, log, err)
            IN IF a.exc # "" THEN a
               ELSE MOutcome([launch(a.task, qid) EXCEPT !.has_process = TRUE],
                             RunningProcess,
                             launch_files(a.task, a.files, a.manager, a.manager),
                             a.manager, "", None)

\* The statements of start up to the call of autoparal (lines 836-840):
\* build, _setup, self.manager.autoparal(self), whose result is dropped.
start_autoparal(tk, p, f, mgr, qid, log, err, connect_ok) ==
    LET f0 == build(tk, f, mgr)
    IN IF ~connect_ok THEN MOutcome(tk, p, f0, mgr, "TaskError", None)
       ELSE autoparal(tk, p, f0, mgr, qid, log, err)

\* The last statement of start (line 843): launch through the task's
\* manager as it is now, and keep the process.
start_launch(tk, p, f, mgr, qid) ==
    MOutcome([launch(tk, qid) EXCEPT !.has_process = TRUE], RunningProcess,
             launch_files(tk, f, mgr, mgr), mgr, "", None)

\* ------------------------------------------------------------------ Init
\* No start() call is under way: pc is the statement of start the call
\* stands before, and optimal the configuration its autoparal selected.
NoStart == [pc |-> "idle", optimal |-> None]

NoStarts == [t \in Tasks |-> NoStart]

\* The caller holds one ParalHints object, self, and possibly a copy of it
\* (copy is 0 when there is none).
HintsOf(confs) == [heap |-> <<confs>>, self |-> 1, copy |-> 0]

NoHints == HintsOf(<<>>)

\* files_file holds a fixed text, so only its presence is kept; input_file is
\* the variables the input was made from and job_file the MPI count the
\* script was rendered with, None while the file is not there.
NewFiles ==
    [output_file |-> NoOutput, stderr_file |-> NoFile, qerr_file |-> NoFile,
     log_file |-> ProbeLog("absent", <<>>),
     files_file |-> FALSE, input_file |-> None, job_file |-> None]

Call(op, t, ret, exc, hints) ==
    [op |-> op, task |-> t, ret |-> ret, exc |-> exc, hints |-> hints]

Init ==
    /\ tasks = [t \in Tasks |-> NewTask]
    /\ procs = [t \in Tasks |-> NoProcess]
    /\ files = [t \in Tasks |-> NewFiles]
    /\ \E pol \in Policies : manager = [policy |-> pol, mpi_ncpus |-> 1]
    /\ paral_hints = NoHints
    /\ task_results = NoResults
    /\ starts = NoStarts
    /\ last = Call("init", 0, None, "", None)

\* --------------------------------------------------------- Task methods
TaskCall(op, t, o) ==
    /\ tasks' = [tasks EXCEPT ![t] = o.task]
    /\ procs' = [procs EXCEPT ![t] = o.proc]
    /\ last' = Call(op, t, o.ret, o.exc, None)
    /\ UNCHANGED <<files, manager, paral_hints, task_results, starts>>

Poll(t) == TaskCall("poll", t, poll(tasks[t], procs[t]))

Wait(t) == \E c \in ExitCodes : TaskCall("wait", t, wait(tasks[t], procs[t], c))

Communicate(t) ==
    \E c \in ExitCodes : TaskCall("communicate", t, communicate(tasks[t], procs[t], c))

Kill(t) == TaskCall("kill", t, kill(tasks[t], procs[t]))

CheckStatus(t) == TaskCall("check_status", t, check_status(tasks[t], procs[t], files[t]))

Events(t) == TaskCall("events", t, events(tasks[t], procs[t], files[t]))

Results(t) == TaskCall("results", t, results(tasks[t], procs[t], files[t]))

\* ------------------------------------------------------ manager methods
ManagerCall(op, t, o) ==
    /\ tasks' = [tasks EXCEPT ![t] = o.task]
    /\ procs' = [procs EXCEPT ![t] = o.proc]
    /\ files' = [files EXCEPT ![t] = o.files]
    /\ manager' = o.manager
    /\ last' = Call(op, t, None, o.exc, o.hints)
    /\ UNCHANGED <<paral_hints, task_results, starts>>

Launch(t) ==
    \E qid \in QueueIds :
        ManagerCall("launch", t,
            MOutcome(launch(tasks[t], qid), procs[t],
                     launch_files(tasks[t], files[t], manager, manager),
                     manager, "", None))

\* manager.launch(task) with an adapter whose submit_to_queue raises
LaunchSubmitRaises(t) ==
    ManagerCall("launch", t,
        MOutcome(launch_submit_raises(tasks[t]), procs[t],
                 launch_files(tasks[t], files[t], manager, manager),
                 manager, "QueueAdapterError", None))

\* task.build()
Build(t) ==
    ManagerCall("build", t,
        MOutcome(tasks[t], procs[t], build(tasks[t], files[t], manager), manager,
                 "", None))

Autoparal(t, logs) ==
    \E qid \in QueueIds, log \in logs, err \in StderrContents \ {NoFile} :
        ManagerCall("autoparal", t,
            autoparal(tasks[t], procs[t], files[t], manager, qid, log, err))

Start(t, logs) ==
    \E qid \in QueueIds, log \in logs, err \in StderrContents \ {NoFile},
       connect_ok \in {TRUE} \cup {links(t) = <<>>} :
        ManagerCall("start", t,
            start(tasks[t], procs[t], files[t], manager, qid, log, err, connect_ok))

\* start() of task t run by a caller of its own, up to the return of
\* autoparal; the call ends here when it raises.
StartAutoparal(t, logs) ==
    /\ starts[t].pc = "idle"
    /\ \E qid \in QueueIds, log \in logs, err \in StderrContents \ {NoFile},
          connect_ok \in {TRUE} \cup {links(t) = <<>>} :
         LET o == start_autoparal(tasks[t], procs[t], files[t], manager, qid, log,
                                  err, connect_ok)
         IN /\ tasks' = [tasks EXCEPT ![t] = o.task]
            /\ procs' = [procs EXCEPT ![t] = o.proc]
            /\ files' = [files EXCEPT ![t] = o.files]
            /\ manager' = o.manager
            /\ last' = Call("start: autoparal", t, None, o.exc, o.hints)
            /\ starts' = [starts EXCEPT ![t] =
                              IF o.exc # "" THEN NoStart
                              ELSE [pc |-> "launch",
                                    optimal |-> IF o.hints = None THEN None
                                                ELSE Some(o.hints[2])]]
    /\ UNCHANGED <<paral_hints, task_results>>

\* The same call goes on with the launch and returns.
StartLaunch(t) ==
    /\ starts[t].pc = "launch"
    /\ \E qid \in QueueIds :
         LET o == start_launch(tasks[t], procs[t], files[t], manager, qid)
         IN /\ tasks' = [tasks EXCEPT ![t] = o.task]
            /\ procs' = [procs EXCEPT ![t] = o.proc]
            /\ files' = [files EXCEPT ![t] = o.files]
            /\ manager' = o.manager
            /\ last' = Call("start: launch", t, None, o.exc, None)
            /\ starts' = [starts EXCEPT ![t].pc = "idle"]
    /\ UNCHANGED <<paral_hints, task_results>>

\* ------------------------------------------------------- the environment
\* The process attached to the task exits.
ProcessExits(t) ==
    /\ procs[t].state = "running"
    /\ \E c \in ExitCodes :
         procs' = [procs EXCEPT ![t] = [state |-> "exited", code |-> Some(c),
                                        returncode |-> None]]
    /\ last' = Call("process exits", t, None, "", None)
    /\ UNCHANGED <<tasks, files, manager, paral_hints, task_results, starts>>

\* A submitted job writes to its artifacts.
JobWrites(t, outs, errs, qerrs) ==
    /\ tasks[t].queue_id # None
    /\ \E o \in outs, e \in errs, q \in qerrs :
         /\ OutputRank(o) >= OutputRank(files[t].output_file)
         /\ TextRank(e) >= TextRank(files[t].stderr_file)
         /\ TextRank(q) >= TextRank(files[t].qerr_file)
         /\ OutputRank(o) = OutputRank(files[t].output_file) =>
                o = files[t].output_file
         /\ <<o, e, q>> # <<files[t].output_file, files[t].stderr_file,
                            files[t].qerr_file>>
         /\ files' = [files EXCEPT ![t].output_file = o, ![t].stderr_file = e,
                                   ![t].qerr_file = q]
    /\ last' = Call("job writes", t, None, "", None)
    /\ UNCHANGED <<tasks, procs, manager, paral_hints, task_results, starts>>

\* ------------------------------------------------------------------ Next
Driven(t) == Len(tasks[t].history) < MaxHistory

\* One task driven through its life by its caller.
FirstTask == 1

\* The probe logs of this specification: one without hints, one with.
LifeLogs == {ProbeLog("no_tags", <<>>), ProbeLog("hints", <<ConfB, ConfA>>)}

Next ==
    \/ Driven(FirstTask) /\ Start(FirstTask, LifeLogs)
    \/ Driven(FirstTask) /\ Launch(FirstTask)
    \/ Driven(FirstTask) /\ Autoparal(FirstTask, LifeLogs)
    \/ Poll(FirstTask)
    \/ Wait(FirstTask)
    \/ Communicate(FirstTask)
    \/ Kill(FirstTask)
    \/ Driven(FirstTask) /\ CheckStatus(FirstTask)
    \/ ProcessExits(FirstTask)
    \/ JobWrites(FirstTask, OutputContents, StderrContents, QerrContents)

Spec == Init /\ [][Next]_vars

\* A workflow of two tasks, the second linked to the first, each started,
\* waited for and checked by the caller; the jobs write a clean output.
LinkLogs == {ProbeLog("no_tags", <<>>)}

LinkOutputs == {Report(FALSE, 0, 0), Report(TRUE, 0, 0)}

MaxLinkHistory == 3

DrivenLinks(t) == Len(tasks[t].history) < MaxLinkHistory

NextLinks ==
    \E t \in Tasks :
        \/ DrivenLinks(t) /\ Start(t, LinkLogs)
        \/ DrivenLinks(t) /\ Wait(t)
        \/ DrivenLinks(t) /\ CheckStatus(t)
        \/ JobWrites(t, LinkOutputs, {NoFile}, {NoFile})

SpecLinks == Init /\ [][NextLinks]_vars

\* One task tuned and submitted through its manager.  The task may carry
\* a variable of the user's with the name of one autoparal injects.
UserVars == {[n \in {} |-> 0], [n \in {"autoparal"} |-> 1]}

InitManager ==
    /\ \E uv \in UserVars :
         tasks = [t \in Tasks |-> [NewTask EXCEPT !.extra_abivars = uv]]
    /\ procs = [t \in Tasks |-> NoProcess]
    /\ files = [t \in Tasks |-> NewFiles]
    /\ \E pol \in Policies : manager = [policy |-> pol, mpi_ncpus |-> 1]
    /\ paral_hints = NoHints
    /\ task_results = NoResults
    /\ starts = NoStarts
    /\ last = Call("init", 0, None, "", None)

MaxManagerHistory == 3

DrivenManager(t) == Len(tasks[t].history) < MaxManagerHistory

NextManager ==
    \/ DrivenManager(FirstTask) /\ Start(FirstTask, ProbeLogs)
    \/ DrivenManager(FirstTask) /\ Launch(FirstTask)
    \/ Build(FirstTask)
    \/ DrivenManager(FirstTask) /\ Autoparal(FirstTask, ProbeLogs)
    \/ DrivenManager(FirstTask) /\ Wait(FirstTask)
    \/ DrivenManager(FirstTask) /\ CheckStatus(FirstTask)
    \/ JobWrites(FirstTask, LinkOutputs, {NoFile}, {NoFile})

SpecManager == InitManager /\ [][NextManager]_vars

\* One task launched through an adapter whose submission can fail.
MaxSubmitHistory == 3

DrivenSubmit(t) == Len(tasks[t].history) < MaxSubmitHistory

NextSubmit ==
    \/ DrivenSubmit(FirstTask) /\ Launch(FirstTask)
    \/ DrivenSubmit(FirstTask) /\ LaunchSubmitRaises(FirstTask)
    \/ DrivenSubmit(FirstTask) /\ Wait(FirstTask)
    \/ DrivenSubmit(FirstTask) /\ CheckStatus(FirstTask)
    \/ JobWrites(FirstTask, LinkOutputs, {NoFile}, {NoFile})

SpecSubmit == Init /\ [][NextSubmit]_vars

\* Two tasks built with the same manager, each started by a caller of its
\* own: a call of autoparal runs alone, and so does a call of launch, but
\* the two start() calls interleave between them.
SharedLogs ==
    {ProbeLog("no_tags", <<>>), ProbeLog("hints", <<ConfB, ConfA>>),
     ProbeLog("hints", <<ConfA>>)}

MaxSharedHistory == 2

DrivenShared(t) == Len(tasks[t].history) < MaxSharedHistory

NextShared ==
    \/ \E t \in Tasks : DrivenShared(t) /\ StartAutoparal(t, SharedLogs)
    \/ \E t \in Tasks : StartLaunch(t)
    \/ \E t \in Tasks : DrivenShared(t) /\ CheckStatus(t)

SpecShared == Init /\ [][NextShared]_vars

\* One task started and then followed by a caller that polls: the caller
\* goes on calling check_status for as long as a call has something to
\* tell, and calls poll when it likes.
MaxPollingHistory == 2

DrivenPolling(t) == Len(tasks[t].history) < MaxPollingHistory

NextPolling ==
    \/ DrivenPolling(FirstTask) /\ Start(FirstTask, LinkLogs)
    \/ DrivenPolling(FirstTask) /\ Poll(FirstTask)
    \/ CheckStatus(FirstTask)
    \/ ProcessExits(FirstTask)
    \/ JobWrites(FirstTask, OutputContents, StderrContents, QerrContents)

SpecPolling ==
    Init /\ [][NextPolling]_vars /\ WF_vars(CheckStatus(FirstTask))

\* A log file parsed by the caller, who then copies, sorts and selects.
ParseLogs ==
    {ProbeLog(k, <<>>) : k \in {"absent", "no_tags", "empty_section", "bad_yaml",
                                "no_header"}}
    \cup {ProbeLog("hints", confs) : confs \in HintLists}

InitHints ==
    /\ tasks = [t \in Tasks |-> NewTask]
    /\ procs = [t \in Tasks |-> NoProcess]
    /\ \E log \in ParseLogs :
         files = [t \in Tasks |-> [NewFiles EXCEPT !.log_file = log]]
    /\ \E pol \in Policies : manager = [policy |-> pol, mpi_ncpus |-> 1]
    /\ paral_hints = NoHints
    /\ task_results = NoResults
    /\ starts = NoStarts
    /\ last = Call("init", 0, None, "", None)

\* hints = ParalHintsParser().parse(log_file)
Parse ==
    LET r == ParalHintsParser_parse(files[FirstTask].log_file)
    IN /\ paral_hints' = IF r.exc = "" THEN HintsOf(r.confs) ELSE paral_hints
       /\ last' = Call("parse", 0, None, r.exc, None)
       /\ UNCHANGED <<tasks, procs, files, manager, task_results, starts>>

\* copy = hints.copy(); the copy held before is dropped
Copy ==
    LET c == ParalHints_copy(<<paral_hints.heap[paral_hints.self]>>, 1)
    IN /\ paral_hints' = [heap |-> c.heap, self |-> 1, copy |-> c.ref]
       /\ last' = Call("copy", 0, None, "", None)
       /\ UNCHANGED <<tasks, procs, files, manager, task_results, starts>>

\* copy.sort_by_speedup()
SortCopyBySpeedup ==
    /\ paral_hints.copy # 0
    /\ paral_hints' = [paral_hints EXCEPT !.heap =
                           ParalHints_sort_by_speedup(@, paral_hints.copy)]
    /\ last' = Call("copy.sort_by_speedup", 0, None, "", None)
    /\ UNCHANGED <<tasks, procs, files, manager, task_results, starts>>

\* copy.sort_by_efficiency()
SortCopyByEfficiency ==
    /\ paral_hints.copy # 0
    /\ paral_hints' = [paral_hints EXCEPT !.heap =
                           ParalHints_sort_by_efficiency(@, paral_hints.copy)]
    /\ last' = Call("copy.sort_by_efficiency", 0, None, "", None)
    /\ UNCHANGED <<tasks, procs, files, manager, task_results, starts>>

\* optimal = hints.select_optimal_conf(policy); ret is the configuration
SelectOptimalConf ==
    LET r == ParalHints_select_optimal_conf(paral_hints.heap, paral_hints.self,
                                            manager.policy)
    IN /\ paral_hints' = [paral_hints EXCEPT !.heap = r.heap]
       /\ last' = Call("select_optimal_conf", 0, r.optimal, r.exc, None)
       /\ UNCHANGED <<tasks, procs, files, manager, task_results, starts>>

NextHints ==
    \/ Parse
    \/ Copy
    \/ SortCopyBySpeedup
    \/ SortCopyByEfficiency
    \/ SelectOptimalConf

SpecHints == InitHints /\ [][NextHints]_vars

\* The same caller with a manager whose policy names a selection mode and
\* constraints on the configurations.
SelectModes == {"default", "aggressive", "conservative"}

SelectConstraints == {<<>>, <<"tot_ncpus <= 2">>}

SelectPolicies ==
    {[Policy(1, Some(PolicyMaxNcpus)) EXCEPT !.mode = m, !.constraints = c] :
        m \in SelectModes, c \in SelectConstraints}

InitSelect ==
    /\ tasks = [t \in Tasks |-> NewTask]
    /\ procs = [t \in Tasks |-> NoProcess]
    /\ \E log \in ParseLogs :
         files = [t \in Tasks |-> [NewFiles EXCEPT !.log_file = log]]
    /\ \E pol \in SelectPolicies : manager = [policy |-> pol, mpi_ncpus |-> 1]
    /\ paral_hints = NoHints
    /\ task_results = NoResults
    /\ starts = NoStarts
    /\ last = Call("init", 0, None, "", None)

SpecSelect == InitSelect /\ [][NextHints]_vars

\* Managers built from policies given as keywords.
AllKwargs ==
    [autoparal : {0, 1}, max_ncpus : {None, Some(PolicyMaxNcpus)},
     mode : {"aggressive"}, use_fw : {TRUE}, automated : {FALSE}]

PolicyKwargs ==
    {[k \in K |-> full[k]] :
        K \in SUBSET {"autoparal", "max_ncpus", "mode", "use_fw", "automated"},
        full \in AllKwargs}

\* manager = TaskManager(qtype, policy=policy); the manager held before
\* stays when the constructor raises.
NewManager ==
    \E policy \in {None} \cup {Some(kw) : kw \in PolicyKwargs} :
        LET r == TaskManager_init(policy)
        IN /\ manager' = IF r.exc = "" THEN r.manager ELSE manager
           /\ last' = [op |-> "TaskManager", task |-> 0, ret |-> None,
                       exc |-> r.exc, hints |-> None, policy |-> policy]
           /\ UNCHANGED <<tasks, procs, files, paral_hints, task_results, starts>>

NextPolicy == NewManager

SpecPolicy == Init /\ [][NextPolicy]_vars

\* One task submitted or started, followed through its process and
\* checked against every combination of its artifacts.
MaxCheckHistory == 2

DrivenCheck(t) == Len(tasks[t].history) < MaxCheckHistory

NextCheck ==
    \/ DrivenCheck(FirstTask) /\ Start(FirstTask, LinkLogs)
    \/ DrivenCheck(FirstTask) /\ Launch(FirstTask)
    \/ Poll(FirstTask)
    \/ Wait(FirstTask)
    \/ Communicate(FirstTask)
    \/ DrivenCheck(FirstTask) /\ CheckStatus(FirstTask)
    \/ ProcessExits(FirstTask)
    \/ JobWrites(FirstTask, OutputContents, StderrContents, QerrContents)

SpecCheck == Init /\ [][NextCheck]_vars

\* One task restarted by its caller again and again: every start adds
\* submission lines, every failed run an error line, with no bound on the
\* number of lines written.
NextHistory ==
    \/ Start(FirstTask, LinkLogs)
    \/ Wait(FirstTask)
    \/ CheckStatus(FirstTask)

SpecHistory == Init /\ [][NextHistory]_vars

\* One task submitted, tuned, waited for and checked, whose events and
\* results the caller reads at any moment.
MaxReadHistory == 2

DrivenRead(t) == Len(tasks[t].history) < MaxReadHistory

NextRead ==
    \/ DrivenRead(FirstTask) /\ Start(FirstTask, LifeLogs)
    \/ DrivenRead(FirstTask) /\ Launch(FirstTask)
    \/ DrivenRead(FirstTask) /\ Autoparal(FirstTask, LifeLogs)
    \/ Poll(FirstTask)
    \/ Wait(FirstTask)
    \/ DrivenRead(FirstTask) /\ CheckStatus(FirstTask)
    \/ Events(FirstTask)
    \/ Results(FirstTask)
    \/ ProcessExits(FirstTask)
    \/ JobWrites(FirstTask, LinkOutputs, {NoFile}, {NoFile})

SpecRead == Init /\ [][NextRead]_vars

\* TaskResults records built by the caller, checked and annotated.
ResultCodes == {0, 1, 2, KillCode}

ResultExceptions == {"", "missing output"}

InitResults ==
    /\ tasks = [t \in Tasks |-> NewTask]
    /\ procs = [t \in Tasks |-> NoProcess]
    /\ files = [t \in Tasks |-> NewFiles]
    /\ manager = [policy |-> TaskPolicy_DEFAULTS, mpi_ncpus |-> 1]
    /\ paral_hints = NoHints
    /\ \E rc \in ResultCodes, status \in POSSIBLE_STATUS :
         task_results = TaskResults(Some(rc), status)
    /\ starts = NoStarts
    /\ last = Call("init", 0, None, "", None)

\* results.push_exceptions(exc)
PushExceptions ==
    /\ \E newstr \in ResultExceptions :
         task_results' = push_exceptions(task_results, newstr)
    /\ last' = Call("push_exceptions", 0, None, "", None)
    /\ UNCHANGED <<tasks, procs, files, manager, paral_hints, starts>>

\* results.assert_valid(); what it returns is the exceptions list
AssertValid ==
    LET r == assert_valid(task_results)
    IN /\ task_results' = r.results
       /\ last' = Call("assert_valid", 0, None, r.exc, None)
       /\ UNCHANGED <<tasks, procs, files, manager, paral_hints, starts>>

NextResults ==
    \/ PushExceptions
    \/ AssertValid

SpecResults == InitResults /\ [][NextResults]_vars

\* ================================================================ claims
\* The step just taken is the call op on task t.
Called(op, t) == last'.op = op /\ last'.task = t

\* The recorded exit code, 0 when none was ever recorded.
ExitCodeIsZero(tk) == ~tk.has_returncode \/ tk.returncode = Some(0)

ExitCodeIsNonZero(tk) ==
    tk.has_returncode /\ tk.returncode # None /\ tk.returncode # Some(0)

HasContent(f) == f.exists /\ f.content # ""

LastLine(h) == h[Len(h)]

\* C1: over poll, wait, communicate, kill and check_status calls the status
\* of a task never decreases.
C1_StatusNeverDecreases ==
    [][\A t \in Tasks :
         last'.op \in {"poll", "wait", "communicate", "kill", "check_status"}
            => tasks'[t].status >= tasks[t].status]_vars

\* C3: check_status on a submitted task whose recorded exit code is a
\* non-zero integer sets the status to Error whatever the artifacts are,
\* returns Error, and appends the error line when the status changed.
C3_NonZeroExitIsError ==
    [][\A t \in Tasks :
         (Called("check_status", t) /\ tasks[t].status >= S_SUB
            /\ ExitCodeIsNonZero(tasks[t]))
         => /\ tasks'[t].status = S_ERROR
            /\ last'.exc = "" /\ last'.ret = Some(S_ERROR)
            /\ tasks[t].status # S_ERROR =>
                 /\ Len(tasks'[t].history) > 0
                 /\ LastLine(tasks'[t].history).event = "Error info"
                 /\ LastLine(tasks'[t].history).info \in
                        {"return code 2", "return code -9"}
            /\ tasks[t].status = S_ERROR =>
                 tasks'[t].history = tasks[t].history]_vars

C3_Witness ==
    /\ last.op = "check_status" /\ last.ret = Some(S_ERROR)
    /\ tasks[last.task].status = S_ERROR
    /\ tasks[last.task].returncode = Some(2)
    /\ ~files[last.task].output_file.exists
    /\ ~files[last.task].stderr_file.exists
    /\ ~files[last.task].qerr_file.exists
    /\ LastLine(tasks[last.task].history) = ErrorLine("return code 2")

\* C4: check_status on a submitted task with exit code 0, no output file
\* and no stderr file changes nothing in the task and returns its status.
C4_StillQueued ==
    [][\A t \in Tasks :
         (Called("check_status", t) /\ tasks[t].status >= S_SUB
            /\ ExitCodeIsZero(tasks[t])
            /\ ~files[t].output_file.exists /\ ~files[t].stderr_file.exists)
         => /\ tasks'[t] = tasks[t]
            /\ last'.exc = "" /\ last'.ret = Some(tasks[t].status)]_vars

C4_Witness ==
    /\ last.op = "check_status" /\ last.exc = ""
    /\ tasks[last.task].status >= S_SUB
    /\ last.ret = Some(tasks[last.task].status)
    /\ ExitCodeIsZero(tasks[last.task])
    /\ ~files[last.task].output_file.exists
    /\ ~files[last.task].stderr_file.exists

\* C5: check_status on a submitted task with exit code 0, no output file
\* and a non-empty stderr file sets the status to Error and records the
\* stderr content as the error line.
C5_StderrWithoutOutputIsError ==
    [][\A t \in Tasks :
         (Called("check_status", t) /\ tasks[t].status >= S_SUB
            /\ ExitCodeIsZero(tasks[t])
            /\ ~files[t].output_file.exists /\ HasContent(files[t].stderr_file))
         => /\ tasks'[t].status = S_ERROR
            /\ last'.exc = ""
            /\ tasks[t].status # S_ERROR =>
                 /\ Len(tasks'[t].history) > 0
                 /\ LastLine(tasks'[t].history) =
                        ErrorLine(files[t].stderr_file.content)]_vars

\* C6: check_status on a submitted task with exit code 0 whose output file
\* parses with the run-completed flag yields Ok, whatever errors or bugs
\* the report lists and whatever the stderr and queue stderr files hold.
C6_CompletedIsOk ==
    [][\A t \in Tasks :
         (Called("check_status", t) /\ tasks[t].status >= S_SUB
            /\ ExitCodeIsZero(tasks[t])
            /\ files[t].output_file.exists /\ files[t].output_file.parsable
            /\ files[t].output_file.run_completed)
         => /\ tasks'[t].status = S_OK
            /\ last'.exc = "" /\ last'.ret = Some(S_OK)]_vars

C6_Witness ==
    /\ last.op = "check_status" /\ last.ret = Some(S_OK)
    /\ tasks[last.task].status = S_OK
    /\ files[last.task].output_file = Report(TRUE, 1, 1)
    /\ HasContent(files[last.task].stderr_file)
    /\ HasContent(files[last.task].qerr_file)

\* C7: a task enters Ok only in check_status, with exit code 0 and an
\* output file that parsed with the run-completed flag; when no rule of
\* the cascade matches, check_status sets Running.
C7_OkOnlyOnCleanSignal ==
    [][\A t \in Tasks :
         /\ (tasks'[t].status = S_OK /\ tasks[t].status # S_OK)
            => /\ Called("check_status", t)
               /\ tasks[t].status >= S_SUB
               /\ ExitCodeIsZero(tasks[t])
               /\ files[t].output_file.exists /\ files[t].output_file.parsable
               /\ files[t].output_file.run_completed
         /\ (Called("check_status", t) /\ tasks[t].status >= S_SUB
               /\ ExitCodeIsZero(tasks[t])
               /\ files[t].output_file.exists /\ files[t].output_file.parsable
               /\ ~files[t].output_file.run_completed
               /\ files[t].output_file.errors = 0 /\ files[t].output_file.bugs = 0
               /\ ~HasContent(files[t].stderr_file)
               /\ ~HasContent(files[t].qerr_file))
            => tasks'[t].status = S_RUN /\ last'.ret = Some(S_RUN)]_vars

C7_Witness ==
    /\ last.op = "check_status" /\ last.ret = Some(S_RUN)
    /\ tasks[last.task].status = S_RUN
    /\ ExitCodeIsZero(tasks[last.task])
    /\ files[last.task].output_file = Report(FALSE, 0, 0)
    /\ ~HasContent(files[last.task].stderr_file)
    /\ ~HasContent(files[last.task].qerr_file)

\* C8: check_status never sets Error on a submitted task whose process was
\* polled and is still running, with no stderr content and no output.
C8_RunningIsNotError ==
    [][\A t \in Tasks :
         (Called("check_status", t) /\ tasks[t].status \in {S_SUB, S_RUN}
            /\ tasks[t].has_process /\ procs[t].state = "running"
            /\ tasks[t].has_returncode /\ tasks[t].returncode = None
            /\ ~files[t].output_file.exists
            /\ ~HasContent(files[t].stderr_file)
            /\ ~HasContent(files[t].qerr_file))
         => tasks'[t].status # S_ERROR]_vars

\* C9: poll, wait and communicate record what the process handle reports;
\* a reported exit code sets Done at once from any status, and poll leaves
\* the status alone while the process is still running.
C9_ExitCodeForcesDone ==
    [][\A t \in Tasks :
         /\ Called("poll", t) =>
              /\ tasks'[t].has_returncode /\ tasks'[t].returncode = last'.ret
              /\ tasks[t].has_process => last'.ret = procs'[t].returncode
              /\ last'.ret # None => tasks'[t].status = S_DONE
              /\ last'.ret = None => tasks'[t].status = tasks[t].status
         /\ (Called("wait", t) /\ last'.exc = "") =>
              /\ last'.ret # None /\ last'.ret = procs'[t].returncode
              /\ tasks'[t].returncode = last'.ret
              /\ tasks'[t].status = S_DONE
         /\ (Called("communicate", t) /\ last'.exc = "") =>
              /\ procs'[t].returncode # None
              /\ tasks'[t].returncode = procs'[t].returncode
              /\ tasks'[t].status = S_DONE]_vars

C9_Witness ==
    /\ last.op = "poll" /\ last.ret = Some(0)
    /\ tasks[last.task].status = S_DONE
    /\ tasks[last.task].history = <<SubmittedLine, CompletedLine>>

C2_CanRun ==
    \A t \in Tasks :
        can_run(tasks, t) <=>
            /\ tasks[t].status = S_READY
            /\ \A i \in 1..Len(links(t)) : tasks[links(t)[i]].status >= S_DONE

\* The linked task is Ready and the task it depends on has just become Done.
C2_Witness ==
    /\ last.op = "wait" /\ last.task = 1
    /\ tasks[1].status = S_DONE
    /\ tasks[2].status = S_READY
    /\ can_run(tasks, 2)

C12_AutoparalDisabled ==
    [][\A t \in Tasks :
         (Called("autoparal", t)
            /\ (manager.policy.autoparal = 0 \/ manager.policy.max_ncpus = None))
         => /\ last'.exc = "" /\ last'.hints = None
            /\ tasks'[t] = tasks[t]
            /\ procs'[t] = procs[t]
            /\ files'[t] = files[t]
            /\ manager' = manager]_vars

\* autoparal 0 with max_ncpus given, on a task already submitted.
C12_Witness ==
    /\ last.op = "autoparal" /\ last.exc = "" /\ last.hints = None
    /\ manager.policy = Policy(0, Some(PolicyMaxNcpus))
    /\ manager.mpi_ncpus = 1
    /\ tasks[last.task].status = S_SUB
    /\ tasks[last.task].history = <<SubmittedLine>>
    /\ files[last.task].log_file = ProbeLog("absent", <<>>)

\* The probe ran and left a log without usable hints.
UnparsableLogs == {"no_tags", "empty_section", "bad_yaml", "no_header"}

AutoparalEnabled == ~(manager.policy.autoparal = 0 \/ manager.policy.max_ncpus = None)

\* C13: when the probe ran and its log cannot be parsed into hints,
\* autoparal returns (None, None) without raising and leaves the MPI count
\* of the manager and the variables of the task as they were.
C13_UnparsableLogIsNoHints ==
    [][\A t \in Tasks :
         (Called("autoparal", t) /\ AutoparalEnabled
            /\ files'[t].log_file.kind \in UnparsableLogs)
         => /\ last'.exc = "" /\ last'.hints = None
            /\ manager'.mpi_ncpus = manager.mpi_ncpus
            /\ tasks'[t].extra_abivars = tasks[t].extra_abivars]_vars

\* C14: when the probe ran and its log holds a non-empty list of
\* configurations, autoparal returns the list and the configuration
\* select_optimal_conf picks, the variables of the task are those it had
\* before the call updated with optimal.vars, and the MPI count of the
\* manager is optimal.mpi_ncpus.
C14_HintsAreApplied ==
    [][\A t \in Tasks :
         (Called("autoparal", t) /\ AutoparalEnabled
            /\ files'[t].log_file.kind = "hints"
            /\ files'[t].log_file.confs # <<>>)
         => LET confs == files'[t].log_file.confs
                optimal == select_optimal_conf(confs, manager.policy).optimal[1]
            IN /\ last'.exc = "" /\ last'.hints = <<confs, optimal>>
               /\ tasks'[t].extra_abivars =
                      add_extra_abivars(tasks[t].extra_abivars, optimal.vars)
               /\ manager'.mpi_ncpus = optimal.mpi_ncpus]_vars

\* C15: autoparal with the search enabled never lowers the status of a
\* task that is Ok or Error.
C15_AutoparalKeepsOutcome ==
    [][\A t \in Tasks :
         (Called("autoparal", t) /\ AutoparalEnabled
            /\ tasks[t].status \in {S_OK, S_ERROR})
         => tasks'[t].status >= tasks[t].status]_vars

\* The list of the ParalHints object the caller holds.
SelfConfs == paral_hints.heap[paral_hints.self]

\* C16: on a non-empty hint set select_optimal_conf returns a
\* configuration of the set whose speedup is at least that of every
\* configuration of the set; on the example with speedups 1.5, 27.0, 0.25
\* and 0.25 it returns the one with speedup 27.0.
C16_OptimalHasHighestSpeedup ==
    [][(last'.op = "select_optimal_conf" /\ SelfConfs # <<>>)
       => /\ last'.exc = "" /\ last'.ret # None
          /\ \E i \in 1..Len(SelfConfs) : SelfConfs[i] = last'.ret[1]
          /\ \A j \in 1..Len(SelfConfs) :
                 speedup(last'.ret[1]) >= speedup(SelfConfs[j])
          /\ SelfConfs = ExampleConfs => last'.ret[1] = ExampleConfs[2]]_vars

C16_Witness ==
    /\ last.op = "select_optimal_conf" /\ last.exc = ""
    /\ SelfConfs = ExampleConfs
    /\ last.ret = Some(ExampleConfs[2])
    /\ speedup(last.ret[1]) = 108 * speedup(ExampleConfs[3])

\* C17: select_optimal_conf on an empty hint set does not raise.
C17_EmptyHintsDoNotRaise ==
    [][(last'.op = "select_optimal_conf" /\ SelfConfs = <<>>)
       => last'.exc = ""]_vars

\* C18: select_optimal_conf leaves the hint set it is called on as it
\* was, and sorting a copy of a hint set leaves the order of the original
\* as it was.
C18_OriginalKeepsOrder ==
    [][/\ last'.op = "select_optimal_conf" => paral_hints' = paral_hints
       /\ last'.op \in {"copy.sort_by_speedup", "copy.sort_by_efficiency"}
          => paral_hints'.heap[paral_hints'.self] = SelfConfs]_vars

\* The copy was put in another order than the original.
C18_Witness ==
    /\ last.op = "copy.sort_by_speedup"
    /\ paral_hints.copy # paral_hints.self
    /\ SelfConfs = <<ConfB, ConfA>>
    /\ paral_hints.heap[paral_hints.copy] = <<ConfA, ConfB>>

\* C19: parse of an existing file raises ParalHintsError when a marker is
\* absent, the section is empty or the sub-document is malformed or
\* incomplete, and returns the hint set of the section otherwise.
C19_ParseRaisesOnlyParalHintsError ==
    [][(last'.op = "parse" /\ files[FirstTask].log_file.kind # "absent")
       => IF files[FirstTask].log_file.kind = "hints"
          THEN /\ last'.exc = ""
               /\ paral_hints' = HintsOf(files[FirstTask].log_file.confs)
          ELSE last'.exc = "ParalHintsError"]_vars

\* The keys TaskPolicy knows.
PolicyKeys == {"autoparal", "mode", "max_ncpus", "use_fw", "constraints"}

\* C20: building a TaskPolicy from keywords raises ValueError exactly
\* when a keyword is not a known key or autoparal is given non-zero
\* without a max_ncpus; otherwise the policy holds the keywords given and
\* the defaults for the others, and with no keywords it is autoparal 0,
\* mode "default", max_ncpus None, use_fw False and no constraints.
C20_PolicyConstruction ==
    [][(last'.op = "TaskManager" /\ last'.policy # None)
       => LET kw == last'.policy[1]
              unknown == \E k \in DOMAIN kw : k \notin PolicyKeys
              unbounded ==
                  /\ "autoparal" \in DOMAIN kw /\ kw["autoparal"] # 0
                  /\ ("max_ncpus" \in DOMAIN kw => kw["max_ncpus"] = None)
          IN /\ last'.exc = "ValueError" <=> (unknown \/ unbounded)
             /\ last'.exc \in {"", "ValueError"}
             /\ last'.exc = "ValueError" => manager' = manager
             /\ last'.exc = "" =>
                  /\ DOMAIN manager'.policy = PolicyKeys
                  /\ \A k \in DOMAIN kw : manager'.policy[k] = kw[k]
                  /\ "autoparal" \notin DOMAIN kw => manager'.policy.autoparal = 0
                  /\ "mode" \notin DOMAIN kw => manager'.policy.mode = "default"
                  /\ "max_ncpus" \notin DOMAIN kw => manager'.policy.max_ncpus = None
                  /\ "use_fw" \notin DOMAIN kw => manager'.policy.use_fw = FALSE
                  /\ manager'.policy.constraints = <<>>
             /\ DOMAIN kw = {} => last'.exc = ""]_vars

\* A policy built from no keywords.
C20_Witness ==
    /\ last.op = "TaskManager" /\ last.exc = ""
    /\ last.policy # None /\ DOMAIN last.policy[1] = {}
    /\ manager.policy.autoparal = 0 /\ manager.policy.mode = "default"
    /\ manager.policy.max_ncpus = None /\ manager.policy.use_fw = FALSE
    /\ manager.policy.constraints = <<>>

\* The record is valid: exit code 0 and status Ok.
SeemsValid(r) == r.task_returncode = Some(0) /\ r.task_status = S_OK

\* C21: assert_valid never raises; it adds a description to the
\* exceptions exactly when the record is not valid, and on a record with
\* exit code 0, status Ok and no exceptions it returns the empty list.
C21_AssertValidNeverRaises ==
    [][last'.op = "assert_valid"
       => /\ last'.exc = ""
          /\ SeemsValid(task_results) => task_results' = task_results
          /\ ~SeemsValid(task_results) =>
                \E d \in {""} : task_results' = push_exceptions(task_results, d)]_vars

\* C22: assert_valid on a record with exit code 1 and status Error returns
\* normally; with no exception recorded before, the list is one string
\* long after the call, and a call that follows another assert_valid
\* leaves the record as it was.
C22_OneExceptionPerFailure ==
    [][(last'.op = "assert_valid" /\ task_results.task_returncode = Some(1)
          /\ task_results.task_status = S_ERROR)
       => /\ last'.exc = ""
          /\ task_results.exceptions = <<>> => Len(task_results'.exceptions) = 1
          /\ last.op = "assert_valid" => task_results' = task_results
          /\ Len(task_results'.exceptions) <= Len(task_results.exceptions) + 1
          /\ SubSeq(task_results'.exceptions, 1, Len(task_results.exceptions))
                 = task_results.exceptions]_vars

C22_Witness ==
    /\ last.op = "assert_valid" /\ last.exc = ""
    /\ task_results.task_returncode = Some(1)
    /\ task_results.task_status = S_ERROR
    /\ Len(task_results.exceptions) = 1

\* check_status gets past the exit code on task t.
Checked(t) ==
    /\ Called("check_status", t) /\ tasks[t].status >= S_SUB
    /\ ExitCodeIsZero(tasks[t])

\* C25: check_status on a submitted task with exit code 0 whose output
\* file exists and does not parse returns Error without raising, sets the
\* status to Error and, when the status changed, records the parse
\* exception as the error line.
C25_UnparsableOutputIsError ==
    [][\A t \in Tasks :
         (Checked(t) /\ files[t].output_file.exists
            /\ ~files[t].output_file.parsable)
         => /\ last'.exc = "" /\ last'.ret = Some(S_ERROR)
            /\ tasks'[t].status = S_ERROR
            /\ tasks[t].status # S_ERROR =>
                 /\ Len(tasks'[t].history) > 0
                 /\ LastLine(tasks'[t].history) = ErrorLine("parser.Error")]_vars

C25_Witness ==
    /\ last.op = "check_status" /\ last.exc = "" /\ last.ret = Some(S_ERROR)
    /\ tasks[last.task].status = S_ERROR
    /\ ExitCodeIsZero(tasks[last.task])
    /\ files[last.task].output_file = Garbled
    /\ LastLine(tasks[last.task].history) = ErrorLine("parser.Error")

\* C26: check_status on a submitted task with exit code 0 whose output
\* parses, is not flagged completed and lists an error or a bug sets the
\* status to Error and, when the status changed, appends an error line.
C26_ReportedErrorsAreError ==
    [][\A t \in Tasks :
         (Checked(t) /\ files[t].output_file.exists
            /\ files[t].output_file.parsable
            /\ ~files[t].output_file.run_completed
            /\ files[t].output_file.errors + files[t].output_file.bugs > 0)
         => /\ last'.exc = ""
            /\ tasks'[t].status = S_ERROR
            /\ tasks[t].status # S_ERROR =>
                 /\ Len(tasks'[t].history) > 0
                 /\ LastLine(tasks'[t].history).event = "Error info"]_vars

\* C27: check_status on a submitted task with exit code 0 whose output
\* parses, is not flagged completed and lists no error and no bug gives
\* Error with the stderr content when the stderr file is not empty, else
\* Error with the queue stderr content when that file is not empty, else
\* Running; a file that exists and is empty counts as no content.
C27_StderrThenQueueStderr ==
    [][\A t \in Tasks :
         (Checked(t) /\ files[t].output_file.exists
            /\ files[t].output_file.parsable
            /\ ~files[t].output_file.run_completed
            /\ files[t].output_file.errors = 0 /\ files[t].output_file.bugs = 0)
         => /\ last'.exc = "" /\ last'.ret = Some(tasks'[t].status)
            /\ tasks'[t].status =
                 IF files[t].stderr_file.content # "" THEN S_ERROR
                 ELSE IF files[t].qerr_file.content # "" THEN S_ERROR
                 ELSE S_RUN
            /\ (tasks'[t].status = S_ERROR /\ tasks[t].status # S_ERROR) =>
                 LastLine(tasks'[t].history) =
                     ErrorLine(IF files[t].stderr_file.content # ""
                               THEN files[t].stderr_file.content
                               ELSE files[t].qerr_file.content)]_vars

\* Running with both stderr files present and empty.
C27_Witness ==
    /\ last.op = "check_status" /\ last.ret = Some(S_RUN)
    /\ tasks[last.task].status = S_RUN
    /\ ExitCodeIsZero(tasks[last.task])
    /\ files[last.task].output_file = Report(FALSE, 0, 0)
    /\ files[last.task].stderr_file = EmptyFile
    /\ files[last.task].qerr_file = EmptyFile

\* The last ten entries of a sequence.
LastTen(h) == IF Len(h) <= 10 THEN h ELSE SubSeq(h, Len(h) - 9, Len(h))

\* C23: the history never holds more than 10 entries, and after a call
\* that wrote n lines (at most two, for a start that ran the probe) it is
\* the last ten entries of the history before the call followed by those
\* n lines; a check_status that moves the task to Error writes the error
\* line, and a start of a task that is not Submitted writes a submission
\* line, also when the history is full.
C23_HistoryKeepsLastTen ==
    /\ [](\A t \in Tasks : Len(tasks[t].history) <= 10)
    /\ [][\A t \in Tasks :
            /\ \E n \in 0..2 :
                  /\ n <= Len(tasks'[t].history)
                  /\ LET h == tasks'[t].history
                         added == SubSeq(h, Len(h) - n + 1, Len(h))
                     IN h = LastTen(tasks[t].history \o added)
            /\ (Called("check_status", t) /\ tasks'[t].status = S_ERROR
                  /\ tasks[t].status # S_ERROR)
               => /\ LastLine(tasks'[t].history).event = "Error info"
                  /\ tasks'[t].history =
                        LastTen(Append(tasks[t].history, LastLine(tasks'[t].history)))
            /\ (Called("start", t) /\ last'.exc = "" /\ tasks[t].status # S_SUB)
               => /\ LastLine(tasks'[t].history) = SubmittedLine
                  /\ \E n \in 1..2 :
                        tasks'[t].history =
                            LastTen(tasks[t].history \o [i \in 1..n |-> SubmittedLine])]_vars

\* A full history whose oldest entry is an error line: the submission
\* line every history starts with has been evicted.
C23_Witness ==
    /\ last.op = "check_status"
    /\ Len(tasks[last.task].history) = 10
    /\ tasks[last.task].history[1] = ErrorLine("return code 2")
    /\ tasks[last.task].history[10] = ErrorLine("return code 2")

\* C24: reading the events of a task whose status is below Done, or its
\* results when none were read before, raises TaskError and leaves the
\* task as it was.
C24_NoReadBelowDone ==
    [][\A t \in Tasks :
         /\ (Called("events", t) /\ tasks[t].status < S_DONE)
            => /\ last'.exc = "TaskError" /\ last'.ret = None
               /\ tasks'[t] = tasks[t]
         /\ (Called("results", t) /\ tasks[t].status < S_DONE
               /\ ~tasks[t].has_results)
            => /\ last'.exc = "TaskError" /\ last'.ret = None
               /\ tasks'[t] = tasks[t]]_vars

\* Results refused on a task that check_status found Running.
C24_Witness ==
    /\ last.op = "results" /\ last.exc = "TaskError"
    /\ tasks[last.task].status = S_RUN
    /\ ~tasks[last.task].has_results /\ tasks[last.task].results = None
    /\ files[last.task].output_file = Report(FALSE, 0, 0)

\* C28: build, called directly or through launch, start or autoparal,
\* leaves the files file, the input file and the job file as they were
\* when they existed before the call.
C28_BuildKeepsExistingFiles ==
    [][\A t \in Tasks :
         (last'.op \in {"build", "launch", "start", "autoparal"} /\ last'.task = t)
         => /\ files[t].files_file => files'[t].files_file
            /\ files[t].input_file # None =>
                 files'[t].input_file = files[t].input_file
            /\ files[t].job_file # None =>
                 files'[t].job_file = files[t].job_file]_vars

\* The calls that reach set_status once at most.
SingleStatusCalls == {"launch", "poll", "wait", "communicate", "check_status"}

\* C29 as stated: a call that changes the status appends one entry to the
\* history, and a call that leaves the status as it was appends none.
C29_OneLinePerStatusChange ==
    [][\A t \in Tasks :
         (last'.op \in SingleStatusCalls /\ last'.task = t)
         => /\ tasks'[t].status # tasks[t].status =>
                 Len(tasks'[t].history) = Len(tasks[t].history) + 1
            /\ tasks'[t].status = tasks[t].status =>
                 tasks'[t].history = tasks[t].history]_vars

\* C29: launch, poll, wait, communicate and check_status append one entry
\* to the history, the one of the new status, when they change the status
\* to Submitted, Ok or Error, and leave the history as it was when they
\* change it to Running or Done or do not change it.
C29_OneLinePerRecordedChange ==
    [][\A t \in Tasks :
         (last'.op \in SingleStatusCalls /\ last'.task = t)
         => IF tasks'[t].status # tasks[t].status
               /\ tasks'[t].status \in {S_SUB, S_OK, S_ERROR}
            THEN /\ Len(tasks'[t].history) = Len(tasks[t].history) + 1
                 /\ SubSeq(tasks'[t].history, 1, Len(tasks[t].history))
                        = tasks[t].history
                 /\ LastLine(tasks'[t].history).event =
                        IF tasks'[t].status = S_SUB THEN "Submitted on"
                        ELSE IF tasks'[t].status = S_OK THEN "Completed on"
                        ELSE "Error info"
            ELSE tasks'[t].history = tasks[t].history]_vars

\* wait moved the task from Submitted to Done and wrote nothing.
C29_Witness ==
    /\ last.op = "wait" /\ last.exc = ""
    /\ tasks[last.task].status = S_DONE
    /\ tasks[last.task].history = <<SubmittedLine>>

\* C30: when autoparal ran the probe and found no hints in its log, the
\* task is Ready and its variables are those it had before the call.
C30_ProbeRestoresVariables ==
    [][\A t \in Tasks :
         (Called("autoparal", t) /\ AutoparalEnabled
            /\ files'[t].log_file.kind = "no_tags")
         => /\ last'.exc = ""
            /\ tasks'[t].status = S_READY
            /\ tasks'[t].extra_abivars = tasks[t].extra_abivars]_vars

C32_FailedSubmitLeavesTaskAsItWas ==
    [][(Called("launch", FirstTask) /\ last'.exc # "")
       => /\ tasks'[FirstTask].status = tasks[FirstTask].status
          /\ tasks'[FirstTask].history = tasks[FirstTask].history
          /\ tasks'[FirstTask].status = S_SUB
                 => \/ tasks'[FirstTask].queue_id # None
                    \/ tasks'[FirstTask].has_process]_vars

\* C33: check_status does not give a missing output file to the parser:
\* no check_status on a task without output file records a parse error,
\* and with exit code 0, no output file and an existing, empty stderr file
\* it returns the status and leaves the status and the history unchanged.
C33_NoParseWithoutOutput ==
    [][\A t \in Tasks :
         (Called("check_status", t) /\ tasks[t].status >= S_SUB
            /\ ~files[t].output_file.exists)
         => /\ tasks'[t].history # tasks[t].history
                 => LastLine(tasks'[t].history) # ErrorLine("parser.Error")
            /\ (ExitCodeIsZero(tasks[t]) /\ files[t].stderr_file = EmptyFile)
                 => /\ tasks'[t].status = tasks[t].status
                    /\ tasks'[t].history = tasks[t].history
                    /\ last'.ret = Some(tasks[t].status)
                    /\ last'.exc = ""]_vars

\* C34: when the start() calls of two tasks sharing the manager interleave,
\* with each autoparal run alone, the launch of a start() whose autoparal
\* selected a configuration renders the task's script with the MPI count
\* of that configuration.
C34_ScriptHasOwnMpiCount ==
    [][\A t \in Tasks :
         (Called("start: launch", t) /\ starts[t].optimal # None)
         => files'[t].job_file = Some(starts[t].optimal[1].mpi_ncpus)]_vars

\* The process of the task has exited with code 0 and its output file
\* parses with the run-completed flag.
ExitedWithZeroAndCompleted(t) ==
    /\ tasks[t].status >= S_SUB
    /\ procs[t].state = "exited" /\ procs[t].code = Some(0)
    /\ files[t].output_file.exists /\ files[t].output_file.parsable
    /\ files[t].output_file.run_completed

\* C35: when the process of a started task has exited with code 0 and its
\* output file parses as completed from some moment on, a caller that
\* keeps calling check_status sees it return Ok at some moment, and from
\* some moment on every check_status returns Ok.
C35_PollingReachesOk ==
    <>[]ExitedWithZeroAndCompleted(FirstTask)
    => /\ <>(last.op = "check_status" /\ last.task = FirstTask
                /\ last.ret = Some(S_OK))
       /\ <>[][Called("check_status", FirstTask) => last'.ret = Some(S_OK)]_vars

====
